---- MODULE Spec2Model ----
(***************************************************************************)
(* Model of the idena_api client (src/src/lib.rs): the IdenaAPI struct,    *)
(* its constructor, set_api_key, the private dispatch primitive `request`  *)
(* and the public wrapper methods built on it with the do_request! macro.  *)
(*                                                                         *)
(* A call is split at its only suspension (the awaits of lines 43 and 45): *)
(* the wrapper action builds the payload and posts it, Deliver resumes the *)
(* call with what the transport produced, Abandon drops the future.        *)
(***************************************************************************)
EXTENDS Integers, Sequences, FiniteSets, TLC

VARIABLES
    api_key,    \* IdenaAPI.api_key  (lib.rs:21)
    host_url,   \* IdenaAPI.host_url (lib.rs:23)
    calls,      \* the futures in flight: slot -> Idle or the posted call
    last,       \* the call that returned most recently, with what it returned
    given       \* history: the arguments most recently given for each field

vars == <<api_key, host_url, calls, last, given>>

-----------------------------------------------------------------------------
(* Bounds and input sets                                                   *)

MaxCalls == 2

Slots == 1..MaxCalls

Keys == {"key-1", "key-2"}

Urls == {"http://localhost:9119/", "http://localhost:9009/"}

Addresses == {"0xA", "0xB"}

-----------------------------------------------------------------------------
(* serde_json::Value                                                       *)

Null == [t |-> "null"]

Bool(b) == [t |-> "bool", b |-> b]

\* Number: an integer (N::PosInt / N::NegInt) or a float (N::Float); the
\* floats of the model are the integral ones, n.0
Number(n) == [t |-> "number", n |-> n, float |-> FALSE]

Float(n) == [t |-> "number", n |-> n, float |-> TRUE]

String(s) == [t |-> "string", s |-> s]

Array(a) == [t |-> "array", a |-> a]

\* Object: a map from keys to values (serde_json::Map, a BTreeMap)
Object(o) == [t |-> "object", o |-> o]

EmptyMap == [k \in {} |-> Null]

\* impl Index<&str> for Value: the member of an object, Null for a missing
\* key and for anything that is not an object
Index(v, k) == IF v.t = "object" /\ k \in DOMAIN v.o THEN v.o[k] ELSE Null

\* The keys the model uses, in the order a BTreeMap iterates them
KeyOrder ==
    <<"amount", "code", "error", "from", "id", "key", "message", "method",
      "params", "result", "to">>

RECURSIVE to_string(_)
RECURSIVE join_array(_, _)
RECURSIVE join_object(_, _, _)

\* the elements of array a from index i on, each preceded by a comma except
\* the first
join_array(a, i) ==
    IF i > Len(a) THEN ""
    ELSE (IF i > 1 THEN "," ELSE "") \o to_string(a[i]) \o join_array(a, i + 1)

\* the members of map o whose key is KeyOrder[i] or later; `first` says no
\* member has been written yet
join_object(o, i, first) ==
    IF i > Len(KeyOrder) THEN ""
    ELSE IF KeyOrder[i] \in DOMAIN o
         THEN (IF first THEN "" ELSE ",")
              \o "\"" \o KeyOrder[i] \o "\":" \o to_string(o[KeyOrder[i]])
              \o join_object(o, i + 1, FALSE)
         ELSE join_object(o, i + 1, first)

\* impl Display for Value (ToString::to_string): the compact JSON text.
\* The strings of the model hold no character that JSON escapes.
to_string(v) ==
    CASE v.t = "null"   -> "null"
      [] v.t = "bool"   -> IF v.b THEN "true" ELSE "false"
      [] v.t = "number" -> IF v.float THEN ToString(v.n) \o ".0" ELSE ToString(v.n)
      [] v.t = "string" -> "\"" \o v.s \o "\""
      [] v.t = "array"  -> "[" \o join_array(v.a, 1) \o "]"
      [] v.t = "object" -> "{" \o join_object(v.o, 1, TRUE) \o "}"

\* f64 arguments: a finite value x.0, NaN, or an infinity
F64(x) == [cls |-> "finite", x |-> x]

NaN == [cls |-> "nan", x |-> 0]

Infinity == [cls |-> "inf", x |-> 0]

Amounts == {F64(5), NaN, Infinity}

\* json!(amount) for an f64: Value::from(f64) is
\* Number::from_f64(f).map_or(Value::Null, Value::Number), and from_f64 is
\* None for a value that is not finite
to_value_f64(f) == IF f.cls = "finite" THEN Float(f.x) ELSE Null

\* a Rust String, as the error variants carry it
StdString(s) == [string |-> s]

-----------------------------------------------------------------------------
(* Result<Value, IdenaError>                                               *)

Ok(v) == [tag |-> "Ok", v |-> v]

Err(e) == [tag |-> "Err", e |-> e]

\* the value of a block that ends in `;`
Unit == [tag |-> "()"]

NodeError(s) == [variant |-> "NodeError", payload |-> StdString(s)]

\* From<reqwest::Error> for IdenaError, which `?` applies (error.rs)
From(e) == [variant |-> "Transport", payload |-> StdString(e)]

-----------------------------------------------------------------------------
(* The payloads the public methods build with json! (do_request!)          *)

identities_json(key) ==
    Object(("key" :> String(key)) @@ ("id" :> Number(1))
           @@ ("method" :> String("dna_identities")))

identity_json(key, address) ==
    Object(("key" :> String(key)) @@ ("id" :> Number(1))
           @@ ("method" :> String("dna_identity"))
           @@ ("params" :> Array(<<String(address)>>)))

epoch_json(key) ==
    Object(("key" :> String(key)) @@ ("id" :> Number(1))
           @@ ("method" :> String("dna_epoch")))

\* ceremony_intervals, address and the methods of lines 112-208 and 220-252
\* all build this payload: a key and an id, nothing else
key_id_json(key) == Object(("key" :> String(key)) @@ ("id" :> Number(1)))

balance_json(key, address) ==
    Object(("key" :> String(key)) @@ ("id" :> Number(1))
           @@ ("method" :> String("dna_getBalance"))
           @@ ("params" :> Array(<<String(address)>>)))

\* a send whose addresses are written the other way round
send_json_swapped(key, from_address, to_address, amount) ==
    Object(("key" :> String(key)) @@ ("id" :> Number(1))
           @@ ("method" :> String("dna_sendTransaction"))
           @@ ("params" :> Array(<<
                  Object(("from" :> String(to_address))
                         @@ ("to" :> String(from_address))
                         @@ ("amount" :> to_value_f64(amount)))>>)))

send_json(key, from_address, to_address, amount) ==
    Object(("key" :> String(key)) @@ ("id" :> Number(1))
           @@ ("method" :> String("dna_sendTransaction"))
           @@ ("params" :> Array(<<
                  Object(("from" :> String(from_address))
                         @@ ("to" :> String(to_address))
                         @@ ("amount" :> to_value_f64(amount)))>>)))

-----------------------------------------------------------------------------
(* The transport: what self.client.post(..).json(..).send().await and      *)
(* .json().await hand back to request                                      *)

\* send() failed: request returns at the `?` of line 43
SendFailed == [stage |-> "send", body |-> Null]

\* the body is not JSON: request returns at the `?` of line 45
JsonFailed == [stage |-> "json", body |-> Null]

\* the body decoded to the Value v
Decoded(v) == [stage |-> "ok", body |-> v]

-----------------------------------------------------------------------------
(* IdenaAPI                                                                *)

Idle == [fn |-> "idle"]

NoCall == [fn |-> "none"]

\* The methods whose do_request! is followed by `;`: the Result of request
\* is dropped and the block's value is ()
Discarding == {"epoch", "ceremony_intervals", "address"}

\* request, lines 40-43: one POST of the payload to host_url, then the await
post(fn, args, payload) ==
    [fn |-> fn, args |-> args, payload |-> payload, url |-> host_url, posts |-> 1]

\* a request whose check tests `result` first
classify_result_first(response) ==
    IF Index(response, "result") # Null
    THEN Ok(Index(response, "result"))
    ELSE Err(NodeError(to_string(Index(response, "error"))))

\* a request that reports the whole response, not its `error` member
classify_whole_response(response) ==
    IF Index(response, "error") # Null
    THEN Err(NodeError(to_string(response)))
    ELSE Ok(Index(response, "result"))

\* a request that takes a null `result` for a failure
classify_null_is_error(response) ==
    IF Index(response, "error") # Null \/ Index(response, "result") = Null
    THEN Err(NodeError(to_string(Index(response, "error"))))
    ELSE Ok(Index(response, "result"))

\* request, lines 47-53: the check of the decoded response
classify(response) ==
    IF Index(response, "error") # Null
    THEN Err(NodeError(to_string(Index(response, "error"))))
    ELSE Ok(Index(response, "result"))

\* a request that swallows a transport failure and checks an empty body
request_unwrap_or_default(tr) ==
    [ret |-> classify(tr.body), classified |-> TRUE]

\* a request with no else branch: nothing is returned for a response
\* without an `error`
request_no_else(tr) ==
    IF tr.stage = "send" THEN [ret |-> Err(From("send")), classified |-> FALSE]
    ELSE IF tr.stage = "json" THEN [ret |-> Err(From("json")), classified |-> FALSE]
    ELSE IF Index(tr.body, "error") # Null
         THEN [ret |-> classify(tr.body), classified |-> TRUE]
         ELSE [ret |-> Unit, classified |-> TRUE]

\* request, lines 43-53, resumed with the transport's outcome tr: each `?`
\* returns the failure converted by From, a decoded response is checked.
\* `classified` records whether control reached the check of line 48.
request(tr) ==
    IF tr.stage = "send" THEN [ret |-> Err(From("send")), classified |-> FALSE]
    ELSE IF tr.stage = "json" THEN [ret |-> Err(From("json")), classified |-> FALSE]
    ELSE [ret |-> classify(tr.body), classified |-> TRUE]

\* do_request!: what the method returns, given what request returned
do_request(fn, out) == IF fn \in Discarding THEN Unit ELSE out

\* IdenaAPI::new
new(key, url) ==
    /\ api_key = key
    /\ host_url = url
    /\ calls = [i \in Slots |-> Idle]
    /\ last = NoCall
    /\ given = [api_key |-> key, host_url |-> url]

\* a set_api_key that assigns the other String field
set_api_key_other_field(new_key) ==
    /\ host_url' = new_key
    /\ given' = [given EXCEPT !.api_key = new_key]
    /\ UNCHANGED <<api_key, calls, last>>

\* IdenaAPI::set_api_key. It takes &mut self, so the borrow checker admits it
\* only while no future borrowed from the client is alive; the model admits
\* it at any time, which adds behaviours and removes none.
set_api_key(new_key) ==
    /\ api_key' = new_key
    /\ given' = [given EXCEPT !.api_key = new_key]
    /\ UNCHANGED <<host_url, calls, last>>

\* a method is called in slot i and runs to the await of request
start(i, fn, args, payload) ==
    /\ calls[i] = Idle
    /\ calls' = [calls EXCEPT ![i] = post(fn, args, payload)]
    /\ UNCHANGED <<api_key, host_url, last, given>>

identities(i) == start(i, "identities", <<>>, identities_json(api_key))

identity(i, a) == start(i, "identity", <<a>>, identity_json(api_key, a))

\* self._api_key names no field of IdenaAPI (lines 19-26): the key these
\* methods would send is not determined by the client's state
epoch(i) == \E k \in Keys : start(i, "epoch", <<>>, epoch_json(k))

ceremony_intervals(i) ==
    \E k \in Keys : start(i, "ceremony_intervals", <<>>, key_id_json(k))

address(i) == \E k \in Keys : start(i, "address", <<>>, key_id_json(k))

balance(i, a) == start(i, "balance", <<a>>, balance_json(api_key, a))

send(i, f, t, m) == start(i, "send", <<f, t, m>>, send_json(api_key, f, t, m))

\* the transport produces tr for the call in slot i, request resumes and
\* returns, and the method returns to its caller
Deliver(i, tr) ==
    /\ calls[i] # Idle
    /\ LET c == calls[i]
           r == request(tr)
       IN last' = [fn |-> c.fn, args |-> c.args, payload |-> c.payload,
                   url |-> c.url, posts |-> c.posts, tr |-> tr,
                   classified |-> r.classified, out |-> r.ret,
                   ret |-> do_request(c.fn, r.ret)]
    /\ calls' = [calls EXCEPT ![i] = Idle]
    /\ UNCHANGED <<api_key, host_url, given>>

\* the future in slot i is dropped while it waits for the transport
Abandon(i) ==
    /\ calls[i] # Idle
    /\ calls' = [calls EXCEPT ![i] = Idle]
    /\ UNCHANGED <<api_key, host_url, last, given>>

-----------------------------------------------------------------------------
(* Spec: one client, up to MaxCalls calls in flight, the key replaced at   *)
(* any time                                                                *)

ScenarioError ==
    Object(("code" :> Number(-32000)) @@ ("message" :> String("insufficient funds")))

SomeOutcomes ==
    { SendFailed,
      Decoded(Object("result" :> String("123.45"))),
      Decoded(Object("error" :> ScenarioError)) }

Init == \E key \in Keys, url \in Urls : new(key, url)

Next ==
    \/ \E k \in Keys : set_api_key(k)
    \/ \E i \in Slots : identities(i)
    \/ \E i \in Slots : epoch(i)
    \/ \E i \in Slots : ceremony_intervals(i)
    \/ \E i \in Slots : send(i, "0xA", "0xB", F64(5))
    \/ \E i \in Slots, tr \in SomeOutcomes : Deliver(i, tr)
    \/ \E i \in Slots : Abandon(i)

Spec == Init /\ [][Next]_vars

-----------------------------------------------------------------------------
(* SpecDispatch: a caller that awaits each call and takes its result       *)
(* before the next, on a client whose key stays, with every argument and   *)
(* every transport outcome of the bounded universe                         *)

Payloads ==
    { Null, Bool(FALSE), Number(0), String("123.45"), Array(<<>>),
      Object(EmptyMap), ScenarioError }

\* a decoded body: an object with any of `result` and `error`, or a value
\* that is no object, or an object with neither
Responses ==
    { Object([k \in D |-> f[k]]) : D \in {{"result"}, {"error"}, {"result", "error"}},
                                    f \in [{"result", "error"} -> Payloads] }
    \cup { Object(EmptyMap), Object("id" :> Number(1)), Null, String("OK"),
           Array(<<String("123.45")>>) }

Outcomes == {SendFailed, JsonFailed} \cup { Decoded(v) : v \in Responses }

InitDispatch == new("key-1", "http://localhost:9119/")

\* the caller has taken what the call returned
Taken ==
    /\ last # NoCall
    /\ last' = NoCall
    /\ UNCHANGED <<api_key, host_url, calls, given>>

NextDispatch ==
    \/ last = NoCall /\ identities(1)
    \/ last = NoCall /\ \E a \in Addresses : identity(1, a)
    \/ last = NoCall /\ epoch(1)
    \/ last = NoCall /\ ceremony_intervals(1)
    \/ last = NoCall /\ address(1)
    \/ last = NoCall /\ \E a \in Addresses : balance(1, a)
    \/ last = NoCall /\ \E f \in Addresses, t \in Addresses, m \in Amounts : send(1, f, t, m)
    \/ \E tr \in Outcomes : Deliver(1, tr)
    \/ Abandon(1)
    \/ Taken

SpecDispatch == InitDispatch /\ [][NextDispatch]_vars

-----------------------------------------------------------------------------
(* Properties of request, checked under SpecDispatch                       *)

Returned == last # NoCall

GotResponse == Returned /\ last.tr.stage = "ok"

GotObject == GotResponse /\ last.tr.body.t = "object"

Has(k) == GotObject /\ k \in DOMAIN last.tr.body.o

IsOk(o) == o.tag = "Ok" /\ DOMAIN o = {"tag", "v"}

IsErr(o) == o.tag = "Err" /\ DOMAIN o = {"tag", "e"}

\* C1: whatever the transport produces (a failure of send, a body that is
\* not JSON, any decoded body), the call of request returns, and what it
\* returns is either a success value or an error, never both, never neither.
C1_ExactlyOneOutcome ==
    Returned =>
        /\ last.tr \in Outcomes
        /\ IsOk(last.out) \/ IsErr(last.out)
        /\ ~(IsOk(last.out) /\ IsErr(last.out))

C1_Witness ==
    /\ GotResponse
    /\ last.tr.body = Object("error" :> Bool(FALSE))
    /\ IsErr(last.out)
    /\ ~IsOk(last.out)

\* C2: a decoded response with neither a `result` nor an `error` member
\* makes the call fail, with an error that is not the remote (NodeError)
\* one; it never succeeds.
C2_NeitherFieldFails ==
    (GotObject /\ ~Has("result") /\ ~Has("error")) =>
        /\ IsErr(last.out)
        /\ last.out.e.variant # "NodeError"

\* C3, as claimed: for a response {"error": E} with E not null the call
\* fails with a NodeError whose payload is the JSON value E itself.
C3_PayloadIsValue ==
    (Has("error") /\ ~Has("result") /\ last.tr.body.o["error"] # Null) =>
        /\ IsErr(last.out)
        /\ last.out.e.variant = "NodeError"
        /\ last.out.e.payload = last.tr.body.o["error"]

\* C3, amended: for a response {"error": E} with E not null the call fails
\* with a NodeError whose payload is the String E.to_string(), the compact
\* JSON text of E, which no other value has: E is carried whole, as text.
C3_PayloadIsJsonText ==
    (Has("error") /\ ~Has("result") /\ last.tr.body.o["error"] # Null) =>
        /\ last.out = Err(NodeError(to_string(last.tr.body.o["error"])))
        /\ \A v \in Payloads :
              StdString(to_string(v)) = last.out.e.payload => v = last.tr.body.o["error"]

C3_Witness ==
    /\ Has("error") /\ ~Has("result")
    /\ last.tr.body.o["error"] = ScenarioError
    /\ last.fn = "send"
    /\ last.out.e.payload =
          StdString("{\"code\":-32000,\"message\":\"insufficient funds\"}")

\* C4: for a response {"result": R} whose `error` member is absent or null
\* the call succeeds and returns exactly R, also when R is null.
C4_ResultReturned ==
    (Has("result") /\ Index(last.tr.body, "error") = Null) =>
        last.out = Ok(last.tr.body.o["result"])

C4_Witness ==
    /\ Has("result") /\ ~Has("error")
    /\ last.tr.body.o["result"] = Null
    /\ last.out = Ok(Null)

\* C5: when send fails or the body does not decode, the call fails with the
\* transport error and the check of the response is not reached: no success
\* value, no NodeError.
C5_TransportFailurePropagates ==
    (Returned /\ last.tr.stage \in {"send", "json"}) =>
        /\ IsErr(last.out)
        /\ last.out.e.variant = "Transport"
        /\ ~last.classified

C5_Witness ==
    /\ Returned
    /\ last.tr = JsonFailed
    /\ last.fn = "balance"
    /\ IsErr(last.out)

\* C7, as claimed: a decoded response with both a `result` and an `error`
\* member makes the call fail with the ProtocolViolation kind of error.
C7_BothFieldsProtocolViolation ==
    (Has("result") /\ Has("error")) =>
        /\ IsErr(last.out)
        /\ last.out.e.variant = "ProtocolViolation"

\* C7, amended: for a decoded response with both members the `error` member
\* decides. If it is not null the call fails with the NodeError of that
\* member's text, whatever `result` holds, and returns no success value; if
\* it is null the call succeeds with `result`.
C7_BothFieldsErrorDecides ==
    (Has("result") /\ Has("error")) =>
        IF last.tr.body.o["error"] # Null
        THEN last.out = Err(NodeError(to_string(last.tr.body.o["error"])))
        ELSE last.out = Ok(last.tr.body.o["result"])

C7_Witness ==
    /\ Has("result") /\ Has("error")
    /\ last.tr.body.o["error"] = ScenarioError
    /\ last.tr.body.o["result"] = String("123.45")
    /\ IsErr(last.out)

-----------------------------------------------------------------------------
(* Properties of the typed methods, checked under SpecDispatch             *)

Typed == {"identities", "identity", "balance", "send"}

Method(fn) ==
    CASE fn = "identities" -> "dna_identities"
      [] fn = "identity"   -> "dna_identity"
      [] fn = "balance"    -> "dna_getBalance"
      [] fn = "send"       -> "dna_sendTransaction"

\* the method posted one payload with its fixed method name and returned
\* what request returned
ForwardsOnce ==
    /\ last.posts = 1
    /\ Index(last.payload, "method") = String(Method(last.fn))
    /\ last.ret = last.out

\* the members of the only element of params, for send
SentTransaction == Index(last.payload, "params").a[1]

\* C8, as claimed: identities sends "dna_identities" and no params,
\* identity(a) and balance(a) send their method with params [a], and
\* send(f, t, m) sends "dna_sendTransaction" with
\* params [{from: f, to: t, amount: m}], the amount being the number m; each
\* posts once and returns what request returned.
C8_ForwardsArguments ==
    (Returned /\ last.fn \in Typed) =>
        /\ ForwardsOnce
        /\ last.fn = "identities" => "params" \notin DOMAIN last.payload.o
        /\ last.fn \in {"identity", "balance"} =>
              Index(last.payload, "params") = Array(<<String(last.args[1])>>)
        /\ last.fn = "send" =>
              /\ Len(Index(last.payload, "params").a) = 1
              /\ DOMAIN SentTransaction.o = {"from", "to", "amount"}
              /\ SentTransaction.o["from"] = String(last.args[1])
              /\ SentTransaction.o["to"] = String(last.args[2])
              /\ SentTransaction.o["amount"].t = "number"
              /\ SentTransaction.o["amount"].n = last.args[3].x

\* C8, amended: as claimed, except that the amount sent is the number m
\* only for a finite m; for a NaN or an infinity it is null.
C8_ForwardsFiniteArguments ==
    (Returned /\ last.fn \in Typed) =>
        /\ ForwardsOnce
        /\ last.fn = "identities" => "params" \notin DOMAIN last.payload.o
        /\ last.fn \in {"identity", "balance"} =>
              Index(last.payload, "params") = Array(<<String(last.args[1])>>)
        /\ last.fn = "send" =>
              /\ Len(Index(last.payload, "params").a) = 1
              /\ DOMAIN SentTransaction.o = {"from", "to", "amount"}
              /\ SentTransaction.o["from"] = String(last.args[1])
              /\ SentTransaction.o["to"] = String(last.args[2])
              /\ IF last.args[3].cls = "finite"
                 THEN /\ SentTransaction.o["amount"].t = "number"
                      /\ SentTransaction.o["amount"].n = last.args[3].x
                 ELSE SentTransaction.o["amount"] = Null

C8_Witness ==
    /\ Returned
    /\ last.fn = "send"
    /\ last.args = <<"0xA", "0xB", F64(5)>>
    /\ to_string(Index(last.payload, "params")) =
          "[{\"amount\":5.0,\"from\":\"0xA\",\"to\":\"0xB\"}]"
    /\ last.ret = Ok(String("123.45"))

-----------------------------------------------------------------------------
(* Properties of the client's state, checked under Spec                    *)

InFlight(i) == calls[i] # Idle

\* C6: the key of the payload a call posts is the api_key the client holds
\* when the payload is built, and the payload of a call in flight does not
\* change, whatever set_api_key does meanwhile.
C6_KeyIsSecretAtBuild ==
    [][\A i \in Slots :
          /\ (~InFlight(i) /\ calls'[i] # Idle) =>
                Index(calls'[i].payload, "key") = String(api_key)
          /\ (InFlight(i) /\ calls'[i] # Idle) =>
                calls'[i].payload = calls[i].payload]_vars

\* C9: every payload a public method posts has a `method` member, with
\* `key` and `id`.
C9_EveryEnvelopeNamesMethod ==
    \A i \in Slots :
        InFlight(i) => {"key", "id", "method"} \subseteq DOMAIN calls[i].payload.o

\* C10: host_url is the constructor's argument and api_key is the argument
\* of the latest set_api_key, or the constructor's if there was none, after
\* any calls posted, returned or abandoned.
C10_ConfigFrame ==
    /\ host_url = given.host_url
    /\ api_key = given.api_key

C10_Witness ==
    /\ Returned
    /\ last.fn = "identities"
    /\ Index(last.payload, "key") # String(api_key)
    /\ \E i \in Slots : InFlight(i) /\ calls[i].fn = "send"
    /\ \E i \in Slots : ~InFlight(i)

====
